---- MODULE Spec2Model ----
(***************************************************************************)
(* Model of zipch/zipcodes.py: ZipcodesDatabase (download, get_locations   *)
(* and the queries built on it) and extract_csv.                           *)
(*                                                                         *)
(* Text is modelled as a sequence of one-character strings, so that        *)
(* str.endswith, int() and the lexicographic order of sorted() are         *)
(* computed and not assumed.  A CSV file is the sequence of its rows, a    *)
(* row the sequence of its fields (what csv.reader yields).  A dict is a   *)
(* sequence of [k, v] entries with distinct keys, in insertion order.      *)
(***************************************************************************)
EXTENDS Integers, Sequences, FiniteSets, TLC

\* Largest number of rows after the first one in a file of the model.
MaxDataRows == 2

VARIABLES
    local_file,       \* what is stored at self.file_path: [exists, rows]
    zipcode_mapping,  \* self.zipcode_mapping
    temps,            \* the temporary files (mkstemp) that exist
    built,            \* history: line 152 has published a parsed mapping
    last,             \* the last completed call: op, arg, served (what the
                      \* server answered), io, err, ret
    pc,               \* per thread: position inside get_locations
    tmp,              \* per thread: its temporary file f (0: none)
    fetched,          \* per thread: what urlretrieve stored in f
    row,              \* per thread: rows the csv reader has consumed
    local_mapping,    \* per thread: the local zipcode_mapping of line 138
    assigned          \* history: threads in the order they ran line 152

vars == <<local_file, zipcode_mapping, temps, built, last,
          pc, tmp, fetched, row, local_mapping, assigned>>

----------------------------------------------------------------------------
(* Text                                                                    *)

Digits == <<"0", "1", "2", "3", "4", "5", "6", "7", "8", "9">>

\* Code-point order of the characters the model uses.
Alphabet == <<"0", "1", "2", "3", "4", "5", "6", "7", "8", "9",
              "A", "B", "D", "E", "G", "K", "N", "O", "P", "V", "Z",
              "e", "g", "i", "l", "n", "r", "t", "x">>

Ord(c) == CHOOSE i \in 1..Len(Alphabet) : Alphabet[i] = c

IsDigit(c) == \E i \in 1..Len(Digits) : Digits[i] = c

DigitVal(c) == (CHOOSE i \in 1..Len(Digits) : Digits[i] = c) - 1

\* str.endswith
EndsWith(s, suffix) ==
    /\ Len(s) >= Len(suffix)
    /\ SubSeq(s, Len(s) - Len(suffix) + 1, Len(s)) = suffix

\* The literals int() and decimal.Decimal() accept, within the alphabet of
\* the model (no sign, blank, underscore or fraction): one digit or more.
IsIntLiteral(s) == Len(s) > 0 /\ \A i \in 1..Len(s) : IsDigit(s[i])

RECURSIVE IntOf(_)
IntOf(s) ==
    IF Len(s) = 0 THEN 0
    ELSE 10 * IntOf(SubSeq(s, 1, Len(s) - 1)) + DigitVal(s[Len(s)])

\* a < b for str
RECURSIVE StrLess(_, _)
StrLess(a, b) ==
    IF Len(b) = 0 THEN FALSE
    ELSE IF Len(a) = 0 THEN TRUE
    ELSE IF a[1] # b[1] THEN Ord(a[1]) < Ord(b[1])
    ELSE StrLess(Tail(a), Tail(b))

\* sorted(list(set(...))) of a set of str
RECURSIVE Sorted(_)
Sorted(S) ==
    IF S = {} THEN <<>>
    ELSE LET m == CHOOSE x \in S : \A y \in S \ {x} : StrLess(x, y)
         IN  <<m>> \o Sorted(S \ {m})

Range(s) == {s[i] : i \in 1..Len(s)}

----------------------------------------------------------------------------
(* dict                                                                    *)

DictKeys(d) == [i \in 1..Len(d) |-> d[i].k]

DictValues(d) == [i \in 1..Len(d) |-> d[i].v]

HasKey(d, key) == \E i \in 1..Len(d) : d[i].k = key

DictGet(d, key) == d[CHOOSE i \in 1..Len(d) : d[i].k = key].v

\* d[key] = value: a known key keeps its place and takes the new value.
DictSet(d, key, value) ==
    IF HasKey(d, key)
    THEN [i \in 1..Len(d) |-> IF d[i].k = key THEN [k |-> key, v |-> value]
                                               ELSE d[i]]
    ELSE Append(d, [k |-> key, v |-> value])

----------------------------------------------------------------------------
(* extract_csv                                                             *)

\* A path of the file system: whether a file is there, and its rows.
NoFile == [exists |-> FALSE, rows |-> <<>>]

File(rows) == [exists |-> TRUE, rows |-> rows]

CsvSuffix == <<".", "c", "s", "v">>

IsCsvName(name) == EndsWith(name, CsvSuffix)

\* The index of member_to_unzip in zf.namelist(), 0 when there is none.
MemberToUnzip(entries) ==
    IF \E i \in 1..Len(entries) : IsCsvName(entries[i].name)
    THEN CHOOSE i \in 1..Len(entries) :
            /\ IsCsvName(entries[i].name)
            /\ \A j \in 1..(i - 1) : ~IsCsvName(entries[j].name)
    ELSE 0

\* open(destination, "wb") before the members are looked at
ExtractCsvOpenFirst(payload, destination) ==
    IF ~payload.zip
    THEN [err |-> "BadZipFile", dest |-> destination, wrote |-> FALSE]
    ELSE LET m == MemberToUnzip(payload.entries)
         IN  IF m = 0
             THEN [err |-> "LookupError", dest |-> File(<<>>), wrote |-> TRUE]
             ELSE [err |-> "none", dest |-> File(payload.entries[m].data),
                   wrote |-> TRUE]

\* extract_csv(zip_path, destination), on the contents of both: payload is
\* what zip_path holds ([zip, entries], entries of [name, data]),
\* destination what the destination path holds before the call.
ExtractCsv(payload, destination) ==
    IF ~payload.zip
    THEN [err |-> "BadZipFile", dest |-> destination, wrote |-> FALSE]
    ELSE LET m == MemberToUnzip(payload.entries)
         IN  IF m = 0
             THEN [err |-> "LookupError", dest |-> destination, wrote |-> FALSE]
             ELSE [err |-> "none", dest |-> File(payload.entries[m].data),
                   wrote |-> TRUE]

----------------------------------------------------------------------------
(* The parser of get_locations                                             *)

\* Location(official_name, canton, municipality, Lv95Coordinates(E, N))
Location(line) ==
    [official_name |-> line[1], canton |-> line[6], municipality |-> line[4],
     coordinates |-> [E |-> IntOf(line[7]), N |-> IntOf(line[8])]]

\* What lines 144-151 raise on a row, in Python's order of evaluation: the
\* right-hand side first (line[0], line[5], line[3], Decimal(line[6]),
\* Decimal(line[7])), then the subscript int(line[1]).
RowError(line) ==
    IF Len(line) < 7 THEN "IndexError"
    ELSE IF ~IsIntLiteral(line[7]) THEN "InvalidOperation"
    ELSE IF Len(line) < 8 THEN "IndexError"
    ELSE IF ~IsIntLiteral(line[8]) THEN "InvalidOperation"
    ELSE IF ~IsIntLiteral(line[2]) THEN "ValueError"
    ELSE "none"

\* One turn of the loop of line 143 on the mapping built so far.
ParseRow(mapping, line) ==
    IF RowError(line) # "none"
    THEN [err |-> RowError(line), mapping |-> mapping]
    ELSE [err |-> "none",
          mapping |-> DictSet(mapping, IntOf(line[2]), Location(line))]

\* The loop of line 143 from row i on; on an error, mapping is what the
\* local zipcode_mapping held when the row raised.
RECURSIVE ParseFrom(_, _, _)
ParseFrom(rows, i, mapping) ==
    IF i > Len(rows) THEN [err |-> "none", mapping |-> mapping]
    ELSE LET r == ParseRow(mapping, rows[i])
         IN  IF r.err # "none" THEN r ELSE ParseFrom(rows, i + 1, r.mapping)

\* the loop started at the first row: the header is parsed as data
ParseNoSkip(rows) ==
    IF Len(rows) = 0 THEN [err |-> "StopIteration", mapping |-> <<>>]
    ELSE ParseFrom(rows, 1, <<>>)

\* Lines 138-151: next(csv_reader) skips one row, the loop parses the rest.
Parse(rows) ==
    IF Len(rows) = 0 THEN [err |-> "StopIteration", mapping |-> <<>>]
    ELSE ParseFrom(rows, 2, <<>>)

----------------------------------------------------------------------------
(* ZipcodesDatabase                                                        *)

\* tempfile.mkstemp(): a name no existing temporary file has.
FreshTemp(tmps) ==
    IF tmps = {} THEN 1
    ELSE (CHOOSE t \in tmps : \A u \in tmps : u <= t) + 1

\* os.remove(f) after the try block instead of in a finally clause
RemoveTempOnSuccess(tmps, f, err) == IF err = "none" THEN tmps \ {f} ELSE tmps

\* finally: os.remove(f), whatever the try block did.
RemoveTemp(tmps, f, err) == tmps \ {f}

\* the condition of line 120 without its overwrite operand
MustFetchIfAbsent(overwrite, file) == ~file.exists

\* Line 120: overwrite or not os.path.exists(self.file_path).
MustFetch(overwrite, file) == overwrite \/ ~file.exists

\* The try block of download: urlretrieve into f, then extract_csv.
\* payload.net = "error" is urlretrieve raising.
FetchAndExtract(payload, file) ==
    IF payload.net # "ok"
    THEN [err |-> "URLError", dest |-> file, wrote |-> FALSE]
    ELSE ExtractCsv(payload, file)

\* download(overwrite) on the local file and the set of temporary files;
\* payload is what the server answers, used when the call fetches.
\* io is the set of I/O calls the call makes.
Download(overwrite, file, tmps, payload) ==
    IF MustFetch(overwrite, file)
    THEN LET f == FreshTemp(tmps)
             r == FetchAndExtract(payload, file)
         IN  [file |-> r.dest,
              temps |-> RemoveTemp(tmps \cup {f}, f, r.err),
              io |-> {"mkstemp", "urlretrieve"}
                       \cup (IF r.wrote THEN {"write"} ELSE {}),
              err |-> r.err]
    ELSE [file |-> file, temps |-> tmps, io |-> {}, err |-> "none"]

\* Line 133: if self.zipcode_mapping (the truth value of a dict).
Cached(mapping) == Len(mapping) > 0

\* the parser filling self.zipcode_mapping directly, row by row
PublishPartial(mapping, parsed) == parsed.mapping

\* line 152 guarded by a second test of self.zipcode_mapping
PublishIfUnbuilt(mapping, parsed) ==
    IF parsed.err = "none" /\ ~Cached(mapping) THEN parsed.mapping ELSE mapping

\* Lines 138 and 152: the rows go to a local dict, which is assigned to
\* self.zipcode_mapping only after the loop has ended without an error.
Publish(mapping, parsed) ==
    IF parsed.err = "none" THEN parsed.mapping ELSE mapping

\* get_locations(): the new fields of the instance and of the file system,
\* the I/O made, the exception raised (or "none") and the value returned.
GetLocations(mapping, file, tmps, payload) ==
    IF Cached(mapping)
    THEN [mapping |-> mapping, file |-> file, temps |-> tmps, io |-> {},
          err |-> "none", ret |-> mapping, published |-> FALSE]
    ELSE LET d == Download(FALSE, file, tmps, payload)
         IN  IF d.err # "none"
             THEN [mapping |-> mapping, file |-> d.file, temps |-> d.temps,
                   io |-> d.io, err |-> d.err, ret |-> <<>>,
                   published |-> FALSE]
             ELSE IF ~d.file.exists
             THEN [mapping |-> mapping, file |-> d.file, temps |-> d.temps,
                   io |-> d.io \cup {"open"}, err |-> "FileNotFoundError",
                   ret |-> <<>>, published |-> FALSE]
             ELSE LET p == Parse(d.file.rows)
                      m == Publish(mapping, p)
                  IN  [mapping |-> m, file |-> d.file, temps |-> d.temps,
                       io |-> d.io \cup {"open"}, err |-> p.err,
                       ret |-> IF p.err = "none" THEN m ELSE <<>>,
                       published |-> p.err = "none"]

\* self.get_locations().get(zipcode): no exception for a missing key
LookupDefault(mapping, zipcode) ==
    IF HasKey(mapping, zipcode)
    THEN [err |-> "none", ret |-> DictGet(mapping, zipcode)]
    ELSE [err |-> "none", ret |-> <<>>]

\* self.get_locations()[zipcode]
Lookup(mapping, zipcode) ==
    IF HasKey(mapping, zipcode)
    THEN [err |-> "none", ret |-> DictGet(mapping, zipcode)]
    ELSE [err |-> "KeyError", ret |-> <<>>]

\* the comprehension of get_zipcodes_for_municipality
ZipcodesForMunicipality(mapping, municipality) ==
    DictKeys(SelectSeq(mapping, LAMBDA e : e.v.municipality = municipality))

\* the comprehension of get_zipcodes_for_municipality pasted unchanged
ZipcodesForCantonByMunicipality(mapping, canton) ==
    DictKeys(SelectSeq(mapping, LAMBDA e : e.v.municipality = canton))

\* the comprehension of get_zipcodes_for_canton
ZipcodesForCanton(mapping, canton) ==
    DictKeys(SelectSeq(mapping, LAMBDA e : e.v.canton = canton))

\* sorted(list(set([location.canton for location in values])))
Cantons(mapping) == Sorted({mapping[i].v.canton : i \in 1..Len(mapping)})

\* sorted(list(set([location.municipality for location in values])))
Municipalities(mapping) ==
    Sorted({mapping[i].v.municipality : i \in 1..Len(mapping)})

----------------------------------------------------------------------------
(* The inputs of the model: rows, files, and what the server answers       *)

Bex == <<"B", "e", "x">>
Bern == <<"B", "e", "r", "n">>
Aigle == <<"A", "i", "g", "l", "e">>
VD == <<"V", "D">>
BE == <<"B", "E">>
GE == <<"G", "E">>
Plz1880 == <<"1", "8", "8", "0">>
Plz1860 == <<"1", "8", "6", "0">>

\* The header of the dataset, its column names shortened.
Header == << <<"O", "r", "t">>, <<"P", "L", "Z">>, <<"Z">>, <<"G">>,
             <<"B">>, <<"K">>, <<"E">>, <<"N">> >>

RowBex   == <<Bex, Plz1880, <<"0">>, Bex, <<"5">>, VD, <<"2", "5">>, <<"1", "1">> >>
\* the same postal code as RowBex, in another canton
RowBern  == <<Bern, Plz1880, <<"1">>, Bern, <<"3">>, BE, <<"2", "6">>, <<"1", "2">> >>
RowAigle == <<Aigle, Plz1860, <<"0">>, Aigle, <<"4">>, VD, <<"2", "4">>, <<"1", "0">> >>
\* a postal code that is no number
RowBadPlz == <<Bex, <<"1", "8", "x", "0">>, <<"0">>, Bex, <<"5">>, VD,
               <<"2", "5">>, <<"1", "1">> >>
\* too few columns
RowShort == <<Bex, Plz1880>>
\* an East coordinate that is no number
RowBadE == <<Bex, Plz1880, <<"0">>, Bex, <<"5">>, VD, <<"E">>, <<"1", "1">> >>

FirstRows == {Header, RowAigle}
DataRows == {RowBex, RowBern, RowAigle, RowBadPlz, RowShort, RowBadE}

SeqsUpTo(S, n) == UNION {[1..m -> S] : m \in 0..n}

\* The files of the model: no row at all, or a first row and up to
\* MaxDataRows rows after it.
Files == {<<>>} \cup {<<h>> \o d : h \in FirstRows, d \in SeqsUpTo(DataRows, MaxDataRows)}

DataCsv == <<"d", ".", "c", "s", "v">>
OtherCsv == <<"o", ".", "c", "s", "v">>
ReadmeTxt == <<"r", ".", "t", "x", "t">>
CsvTxt == <<"c", "s", "v", ".", "t", "x", "t">>

Entry(name, data) == [name |-> name, data |-> data]
Readme == Entry(ReadmeTxt, << <<Bex>> >>)
Zip(entries) == [net |-> "ok", zip |-> TRUE, entries |-> entries]
NetError == [net |-> "error", zip |-> FALSE, entries |-> <<>>]
NotZip == [net |-> "ok", zip |-> FALSE, entries |-> <<>>]
NoPayload == [net |-> "unused", zip |-> FALSE, entries |-> <<>>]

\* The files the server's archives hold.
ServedFiles ==
    {<<>>, <<Header>>, <<Header, RowBex>>, <<Header, RowAigle, RowBern>>,
     <<Header, RowBex, RowBern>>, <<Header, RowBern, RowBex>>,
     <<RowAigle, RowBex>>, <<Header, RowBex, RowBadPlz>>,
     <<Header, RowShort>>}

\* What urlretrieve can give: an error, a file that is no archive,
\* archives without a .csv member, and archives whose first .csv member
\* is a served file.
Payloads ==
    {NetError, NotZip, Zip(<<>>), Zip(<<Readme>>),
     Zip(<<Readme, Entry(CsvTxt, <<Header, RowAigle>>)>>)}
    \cup {Zip(<<Entry(DataCsv, f)>>) : f \in ServedFiles}
    \cup {Zip(<<Readme, Entry(DataCsv, f), Entry(OtherCsv, <<Header, RowAigle>>)>>) :
            f \in {<<Header>>, <<Header, RowBern, RowBex>>}}

\* The server is asked only by a call that fetches.
PayloadsFor(fetches) == IF fetches THEN Payloads ELSE {NoPayload}

ZipcodeArgs == {1860, 1880, 9999}
CantonArgs == {VD, BE, GE}
MunicipalityArgs == {Bex, Bern, Aigle}

----------------------------------------------------------------------------
(* One instance, one caller: each public method is one step                *)

Threads == {1, 2}

Init ==
    /\ local_file \in {NoFile} \cup {File(f) : f \in Files}
    /\ zipcode_mapping = <<>>
    /\ temps = {}
    /\ built = FALSE
    /\ last = [op |-> "new", arg |-> <<>>, served |-> NoPayload, io |-> {},
               err |-> "none", ret |-> <<>>]
    /\ pc = [t \in Threads |-> "idle"]
    /\ tmp = [t \in Threads |-> 0]
    /\ fetched = [t \in Threads |-> NoPayload]
    /\ row = [t \in Threads |-> 0]
    /\ local_mapping = [t \in Threads |-> <<>>]
    /\ assigned = <<>>

threadVars == <<pc, tmp, fetched, row, local_mapping, assigned>>

\* The effect of self.get_locations() inside a query, and the record of
\* the call: the query's own exception and value when get_locations
\* raised none.
Query(op, arg, payload, g, q) ==
    /\ local_file' = g.file
    /\ temps' = g.temps
    /\ zipcode_mapping' = g.mapping
    /\ built' = (built \/ g.published)
    /\ last' = [op |-> op, arg |-> arg, served |-> payload, io |-> g.io,
                err |-> IF g.err # "none" THEN g.err ELSE q.err,
                ret |-> IF g.err # "none" THEN <<>> ELSE q.ret]
    /\ UNCHANGED threadVars

Ok(value) == [err |-> "none", ret |-> value]

DoDownload(overwrite) ==
    \E payload \in PayloadsFor(MustFetch(overwrite, local_file)) :
        LET d == Download(overwrite, local_file, temps, payload)
        IN  /\ local_file' = d.file
            /\ temps' = d.temps
            /\ last' = [op |-> "download", arg |-> overwrite,
                        served |-> payload, io |-> d.io, err |-> d.err,
                        ret |-> <<>>]
            /\ UNCHANGED <<zipcode_mapping, built>>
            /\ UNCHANGED threadVars

\* extract_csv(zip_path, self.file_path) called by the user of the module
\* on an archive of their own.
DoExtractCsv ==
    \E payload \in {p \in Payloads : p.net = "ok"} :
        LET r == ExtractCsv(payload, local_file)
        IN  /\ local_file' = r.dest
            /\ last' = [op |-> "extract_csv", arg |-> <<>>,
                        served |-> payload,
                        io |-> IF r.wrote THEN {"write"} ELSE {},
                        err |-> r.err, ret |-> <<>>]
            /\ UNCHANGED <<zipcode_mapping, temps, built>>
            /\ UNCHANGED threadVars

\* Whether get_locations would fetch: the index is not cached and
\* download(overwrite=False) fetches.
BuildFetches == ~Cached(zipcode_mapping) /\ MustFetch(FALSE, local_file)

DoGetLocations ==
    \E payload \in PayloadsFor(BuildFetches) :
        LET g == GetLocations(zipcode_mapping, local_file, temps, payload)
        IN  Query("get_locations", <<>>, payload, g, Ok(g.ret))

DoGetLocation(zipcode) ==
    \E payload \in PayloadsFor(BuildFetches) :
        LET g == GetLocations(zipcode_mapping, local_file, temps, payload)
        IN  Query("get_location", zipcode, payload, g, Lookup(g.ret, zipcode))

DoGetZipcodesForMunicipality(municipality) ==
    \E payload \in PayloadsFor(BuildFetches) :
        LET g == GetLocations(zipcode_mapping, local_file, temps, payload)
        IN  Query("get_zipcodes_for_municipality", municipality, payload, g,
                  Ok(ZipcodesForMunicipality(g.ret, municipality)))

DoGetZipcodesForCanton(canton) ==
    \E payload \in PayloadsFor(BuildFetches) :
        LET g == GetLocations(zipcode_mapping, local_file, temps, payload)
        IN  Query("get_zipcodes_for_canton", canton, payload, g,
                  Ok(ZipcodesForCanton(g.ret, canton)))

DoGetCantons ==
    \E payload \in PayloadsFor(BuildFetches) :
        LET g == GetLocations(zipcode_mapping, local_file, temps, payload)
        IN  Query("get_cantons", <<>>, payload, g, Ok(Cantons(g.ret)))

DoGetMunicipalities ==
    \E payload \in PayloadsFor(BuildFetches) :
        LET g == GetLocations(zipcode_mapping, local_file, temps, payload)
        IN  Query("get_municipalities", <<>>, payload, g, Ok(Municipalities(g.ret)))

Next ==
    \/ \E overwrite \in BOOLEAN : DoDownload(overwrite)
    \/ DoExtractCsv
    \/ DoGetLocations
    \/ \E zipcode \in ZipcodeArgs : DoGetLocation(zipcode)
    \/ \E municipality \in MunicipalityArgs : DoGetZipcodesForMunicipality(municipality)
    \/ \E canton \in CantonArgs : DoGetZipcodesForCanton(canton)
    \/ DoGetCantons
    \/ DoGetMunicipalities

Spec == Init /\ [][Next]_vars

----------------------------------------------------------------------------
(* Two threads, each calling get_locations() once on the same instance:    *)
(* one step per statement that reads or writes what the threads share.     *)

\* What the server answers to the threads.
ThreadPayloads ==
    {NetError, Zip(<<Readme>>), Zip(<<Entry(DataCsv, <<Header, RowBex>>)>>),
     Zip(<<Entry(DataCsv, <<Header, RowAigle, RowBern>>)>>)}

InitThreads ==
    /\ Init
    /\ local_file \in {NoFile, File(<<Header>>), File(<<Header, RowBern>>)}

Goto(t, label) == pc' = [pc EXCEPT ![t] = label]

\* Line 133: the test of self.zipcode_mapping.
CheckCached(t) ==
    /\ pc[t] = "idle"
    /\ Goto(t, IF Cached(zipcode_mapping) THEN "done" ELSE "download")
    /\ UNCHANGED <<local_file, zipcode_mapping, temps, built, last,
                   tmp, fetched, row, local_mapping, assigned>>

\* Lines 120-121 of download(overwrite=False): the test of the path, and
\* mkstemp when the call fetches.
CheckExists(t) ==
    /\ pc[t] = "download"
    /\ IF MustFetch(FALSE, local_file)
       THEN /\ tmp' = [tmp EXCEPT ![t] = FreshTemp(temps)]
            /\ temps' = temps \cup {FreshTemp(temps)}
            /\ Goto(t, "urlretrieve")
       ELSE /\ Goto(t, "open")
            /\ UNCHANGED <<tmp, temps>>
    /\ UNCHANGED <<local_file, zipcode_mapping, built, last,
                   fetched, row, local_mapping, assigned>>

\* Line 123, and lines 125-126 when urlretrieve raises.
Urlretrieve(t) ==
    /\ pc[t] = "urlretrieve"
    /\ \E payload \in ThreadPayloads :
          IF payload.net # "ok"
          THEN /\ temps' = RemoveTemp(temps, tmp[t], "URLError")
               /\ Goto(t, "raised")
               /\ UNCHANGED fetched
          ELSE /\ fetched' = [fetched EXCEPT ![t] = payload]
               /\ Goto(t, "extract")
               /\ UNCHANGED temps
    /\ UNCHANGED <<local_file, zipcode_mapping, built, last,
                   tmp, row, local_mapping, assigned>>

\* Lines 214-224: the search of the member, then open(destination, "wb"),
\* which empties the destination; lines 125-126 when extract_csv raises.
ExtractOpen(t) ==
    /\ pc[t] = "extract"
    /\ LET r == ExtractCsv(fetched[t], local_file)
       IN  IF r.err # "none"
           THEN /\ local_file' = r.dest
                /\ temps' = RemoveTemp(temps, tmp[t], r.err)
                /\ Goto(t, "raised")
           ELSE /\ local_file' = File(<<>>)
                /\ Goto(t, "write")
                /\ UNCHANGED temps
    /\ UNCHANGED <<zipcode_mapping, built, last,
                   tmp, fetched, row, local_mapping, assigned>>

\* Line 225: dfp.write(zfp.read()), then lines 125-126.
ExtractWrite(t) ==
    /\ pc[t] = "write"
    /\ local_file' = ExtractCsv(fetched[t], local_file).dest
    /\ temps' = RemoveTemp(temps, tmp[t], "none")
    /\ Goto(t, "open")
    /\ UNCHANGED <<zipcode_mapping, built, last,
                   tmp, fetched, row, local_mapping, assigned>>

\* Lines 138-142: the local dict, open, and next(csv_reader).
SkipHeader(t) ==
    /\ pc[t] = "open"
    /\ IF local_file.exists /\ Len(local_file.rows) > 0
       THEN /\ row' = [row EXCEPT ![t] = 1]
            /\ local_mapping' = [local_mapping EXCEPT ![t] = <<>>]
            /\ Goto(t, "loop")
       ELSE /\ Goto(t, "raised")
            /\ UNCHANGED <<row, local_mapping>>
    /\ UNCHANGED <<local_file, zipcode_mapping, temps, built, last,
                   tmp, fetched, assigned>>

\* Lines 143-151: one turn of the loop on the next row the file holds now,
\* or its end.
ReadRow(t) ==
    /\ pc[t] = "loop"
    /\ IF row[t] >= Len(local_file.rows)
       THEN /\ Goto(t, "assign")
            /\ UNCHANGED <<row, local_mapping>>
       ELSE LET r == ParseRow(local_mapping[t], local_file.rows[row[t] + 1])
            IN  IF r.err # "none"
                THEN /\ Goto(t, "raised")
                     /\ UNCHANGED <<row, local_mapping>>
                ELSE /\ local_mapping' = [local_mapping EXCEPT ![t] = r.mapping]
                     /\ row' = [row EXCEPT ![t] = row[t] + 1]
                     /\ Goto(t, "loop")
    /\ UNCHANGED <<local_file, zipcode_mapping, temps, built, last,
                   tmp, fetched, assigned>>

\* Line 152.
Assign(t) ==
    /\ pc[t] = "assign"
    /\ zipcode_mapping' =
          Publish(zipcode_mapping, [err |-> "none", mapping |-> local_mapping[t]])
    /\ assigned' = Append(assigned, t)
    /\ built' = TRUE
    /\ Goto(t, "done")
    /\ UNCHANGED <<local_file, temps, last, tmp, fetched, row, local_mapping>>

NextThreads ==
    \E t \in Threads :
        \/ CheckCached(t)
        \/ CheckExists(t)
        \/ Urlretrieve(t)
        \/ ExtractOpen(t)
        \/ ExtractWrite(t)
        \/ SkipHeader(t)
        \/ ReadRow(t)
        \/ Assign(t)

SpecThreads == InitThreads /\ [][NextThreads]_vars

----------------------------------------------------------------------------
(* Properties                                                              *)

QueryOps == {"get_locations", "get_location", "get_zipcodes_for_municipality",
             "get_zipcodes_for_canton", "get_cantons", "get_municipalities"}

\* The exceptions a build attempt of get_locations ends with.
BuildErrors == {"URLError", "BadZipFile", "LookupError", "FileNotFoundError",
                "StopIteration", "IndexError", "InvalidOperation", "ValueError"}

\* The last call was a query whose build attempt failed.
BuildFailed == last.op \in QueryOps /\ last.err \in BuildErrors

\* The last call was a query that parsed the local file to its end.
BuildSucceeded ==
    last.op \in QueryOps /\ "open" \in last.io /\ last.err \notin BuildErrors

KeySet(mapping) == {mapping[i].k : i \in 1..Len(mapping)}

\* The set of the elements of a sequence of str.
StrSet(seq) == {seq[i] : i \in 1..Len(seq)}

\* mapping is the index of the rows after the first: its keys are distinct,
\* they are the postal codes of these rows, and each maps to the Location
\* of the last row that carries it.
IsIndexOf(mapping, rows) ==
    /\ \A i, j \in 1..Len(mapping) : mapping[i].k = mapping[j].k => i = j
    /\ KeySet(mapping) = {IntOf(rows[i][2]) : i \in 2..Len(rows)}
    /\ \A i \in 1..Len(mapping) :
          \E j \in 2..Len(rows) :
              /\ IntOf(rows[j][2]) = mapping[i].k
              /\ \A n \in (j + 1)..Len(rows) : IntOf(rows[n][2]) # mapping[i].k
              /\ mapping[i].v.official_name = rows[j][1]
              /\ mapping[i].v.municipality = rows[j][4]
              /\ mapping[i].v.canton = rows[j][6]

\* C1: once a get_locations has built the index, every later query returns
\* the cached index and makes no I/O call (no download, no read of the
\* local file), whatever the file that was parsed held.
C1_NoIOOnceBuilt ==
    [][(built /\ last'.op \in QueryOps)
          => (last'.io = {} /\ zipcode_mapping' = zipcode_mapping)]_vars

\* C2: a failed build attempt leaves the cached index unbuilt, with none of
\* the rows parsed before the failure, and the next query attempts the build
\* again (it fetches or opens the local file); a build that succeeds caches
\* the index of all the rows after the first.
C2_AfterBuild ==
    /\ BuildFailed => zipcode_mapping = <<>>
    /\ BuildSucceeded => IsIndexOf(zipcode_mapping, local_file.rows)

C2_Retry ==
    (BuildFailed /\ last'.op \in QueryOps)
        => ("urlretrieve" \in last'.io \/ "open" \in last'.io)

C2_NeverPartial == [](C2_AfterBuild) /\ [][C2_Retry]_vars

C2_Witness ==
    /\ last.op = "get_locations"
    /\ last.err = "ValueError"
    /\ local_file.rows = <<Header, RowBex, RowBadPlz>>
    /\ zipcode_mapping = <<>>

\* C3: download(overwrite=False) on an existing destination calls nothing
\* and changes no file; download(overwrite=True) always calls urlretrieve,
\* and writes the destination when the fetch and the extraction succeed;
\* download(overwrite=False) on a missing destination calls urlretrieve; a
\* query on an instance whose local file exists never calls urlretrieve.
C3_Step ==
    /\ (last'.op = "download" /\ last'.arg = FALSE /\ local_file.exists)
          => (last'.io = {} /\ last'.err = "none" /\ local_file' = local_file)
    /\ (last'.op = "download" /\ last'.arg = TRUE)
          => /\ "urlretrieve" \in last'.io
             /\ last'.err = "none" => "write" \in last'.io
    /\ (last'.op = "download" /\ last'.arg = FALSE /\ ~local_file.exists)
          => "urlretrieve" \in last'.io
    /\ (last'.op \in QueryOps /\ local_file.exists)
          => ("urlretrieve" \notin last'.io /\ local_file' = local_file)

C3_DownloadOverwrite == [][C3_Step]_vars

C3_Witness ==
    /\ last.op = "download"
    /\ last.arg = FALSE
    /\ last.io = {}
    /\ local_file = File(<<Header, RowBex, RowBern>>)

\* C4: no temporary file that download created exists once the call has
\* ended, whether it succeeded, urlretrieve raised or extract_csv raised.
C4_NoTempLeft == temps = {}

C4_Witness ==
    /\ last.op \in {"download", "get_cantons"}
    /\ "mkstemp" \in last.io
    /\ last.err \in {"URLError", "LookupError"}

\* C5: extract_csv on an archive with no member whose name ends with .csv
\* raises LookupError and leaves the destination as it was (not created, not
\* emptied), called directly or from download, over an existing file too.
NoCsvMember(payload) ==
    /\ payload.net = "ok"
    /\ payload.zip
    /\ \A i \in 1..Len(payload.entries) :
          LET n == payload.entries[i].name
          IN  Len(n) < 4 \/ <<n[Len(n) - 3], n[Len(n) - 2], n[Len(n) - 1], n[Len(n)]>> # CsvSuffix

C5_Step ==
    NoCsvMember(last'.served)
        => (last'.err = "LookupError" /\ local_file' = local_file)

C5_NoCsvUntouched == [][C5_Step]_vars

C5_Witness ==
    /\ last.op = "download"
    /\ last.arg = TRUE
    /\ last.served = Zip(<<Readme, Entry(CsvTxt, <<Header, RowAigle>>)>>)
    /\ last.err = "LookupError"
    /\ local_file = File(<<Header, RowBex>>)

\* C6: once the index is built no public operation changes the cached
\* mapping, also when download(overwrite=True) has replaced the local file.
C6_ReadOnlyOnceBuilt == [][built => zipcode_mapping' = zipcode_mapping]_vars

\* C7: get_location(code) raises KeyError, a LookupError, to its caller when
\* code is no key of the index, and returns the Location stored under code
\* when it is one; the failed lookup leaves the cached index as it was (as
\* get_locations built it, when the call built it).
C7_Result ==
    (last.op = "get_location" /\ last.err \notin BuildErrors)
        => IF \E i \in 1..Len(zipcode_mapping) : zipcode_mapping[i].k = last.arg
           THEN /\ last.err = "none"
                /\ \E i \in 1..Len(zipcode_mapping) :
                      /\ zipcode_mapping[i].k = last.arg
                      /\ zipcode_mapping[i].v = last.ret
           ELSE last.err = "KeyError"

C7_Step ==
    (last'.op = "get_location" /\ last'.err = "KeyError")
        => IF zipcode_mapping # <<>>
           THEN zipcode_mapping' = zipcode_mapping
           ELSE IsIndexOf(zipcode_mapping', local_file'.rows)

IsKeysOfCanton(zipcodes, mapping, canton) ==
    /\ StrSet(zipcodes) =
          {mapping[i].k : i \in {j \in 1..Len(mapping) : mapping[j].v.canton = canton}}
    /\ \A i, j \in 1..Len(zipcodes) : zipcodes[i] = zipcodes[j] => i = j

C8_CantonPartition ==
    /\ (last.op = "get_zipcodes_for_canton" /\ last.err = "none")
          => IsKeysOfCanton(last.ret, zipcode_mapping, last.arg)
    /\ \A c \in CantonArgs :
          IsKeysOfCanton(ZipcodesForCanton(zipcode_mapping, c), zipcode_mapping, c)
    /\ LET cantons == StrSet(Cantons(zipcode_mapping))
           result(c) == StrSet(ZipcodesForCanton(zipcode_mapping, c))
       IN  /\ UNION {result(c) : c \in cantons} = KeySet(zipcode_mapping)
           /\ \A c, d \in cantons : c # d => result(c) \cap result(d) = {}
           /\ \A i, j \in 1..Len(zipcode_mapping) :
                 zipcode_mapping[i].k = zipcode_mapping[j].k => i = j

C8_Witness ==
    /\ last.op = "get_zipcodes_for_canton"
    /\ last.arg = VD
    /\ last.ret = <<1860>>
    /\ Cantons(zipcode_mapping) = <<BE, VD>>
    /\ KeySet(zipcode_mapping) = {1860, 1880}

\* C10: the parser skips the first row and no other; the index it builds has
\* the postal codes of the later rows as its keys, each mapped to the
\* Location of the last row that carries it; a repeated postal code raises
\* nothing, and the first row gives no key.
WellFormed(line) ==
    /\ Len(line) >= 8
    /\ \A c \in {2, 7, 8} :
          /\ Len(line[c]) > 0
          /\ \A i \in 1..Len(line[c]) :
                line[c][i] \in {"0", "1", "2", "3", "4", "5", "6", "7", "8", "9"}

C10_ParsedIndex ==
    (last.op \in QueryOps /\ "open" \in last.io)
        => LET rows == local_file.rows
           IN  IF Len(rows) >= 1 /\ \A i \in 2..Len(rows) : WellFormed(rows[i])
               THEN /\ last.err \notin BuildErrors
                    /\ IsIndexOf(zipcode_mapping, rows)
               ELSE last.err \in BuildErrors

C10_Witness ==
    /\ last.op = "get_locations"
    /\ last.err = "none"
    /\ local_file.rows = <<RowAigle, RowBex, RowBern>>
    /\ DictKeys(zipcode_mapping) = <<1880>>
    /\ zipcode_mapping[1].v.canton = BE

\* C9 as stated: two threads can both pass the test of line 133 and build,
\* and once both have finished the cached index is the mapping of the build
\* that ended first.
C9_FirstBuildWins ==
    (Len(assigned) = 2 /\ \A t \in Threads : pc[t] = "done")
        => zipcode_mapping = local_mapping[assigned[1]]

\* C9 as amended: two threads can both pass the test of line 133 and build,
\* and once both have finished the cached index is the mapping of the build
\* that ended last: line 152 of the later build replaces the earlier index.
C9_LastBuildWins ==
    (assigned # <<>> /\ \A t \in Threads : pc[t] \in {"done", "raised"})
        => zipcode_mapping = local_mapping[assigned[Len(assigned)]]

C9_Witness ==
    /\ Len(assigned) = 2
    /\ \A t \in Threads : pc[t] = "done" /\ tmp[t] # 0
    /\ local_mapping[assigned[1]] # local_mapping[assigned[2]]
    /\ local_mapping[assigned[1]] # <<>>
    /\ zipcode_mapping = local_mapping[assigned[2]]

====
